---- MODULE Spec2Model ----
(***************************************************************************)
(* Model of user_tools/src/spark_rapids_pytools/cloud_api/emr.py:          *)
(* loading an EMR cluster topology (EMRCluster._init_nodes), migrating it  *)
(* to GPU instance types (EMRCluster.migrate_from_cluster) and computing   *)
(* the cost of both topologies (EmrSavingsEstimator).                      *)
(*                                                                         *)
(* InstanceGroup objects live in `heap`: a group reference is an index     *)
(* into it, so "the same object" and "an equal new object" differ.         *)
(***************************************************************************)
EXTENDS Integers, Sequences, FiniteSets, TLC

VARIABLES raw, matcher, pc, heap, orig_cluster, gpu_cluster, calls, notes, estimator

vars == <<raw, matcher, pc, heap, orig_cluster, gpu_cluster, calls, notes, estimator>>

\* ---------------------------------------------------------------- bounds
MaxGroups == 2
MaxInst == 2

\* ------------------------------------------------------------ value sets
\* Python's None (an absent instance type, address, object)
None == "None"

MASTER == "master"
WORKER == "worker"

\* InstanceGroupType labels of the provider
Labels == {"MASTER", "CORE", "TASK"}
\* instance types a source cluster uses, and the GPU types the platform supports
SourceTypes == {"r5.2xlarge", "g5.2xlarge"}
SupportedGpus == {"g5.2xlarge"}
\* what find_best_cpu_conversion may return for one instance type
MatchResults == SupportedGpus \cup {None}

\* the k-th instance the provider lists for a group
PublicDnsNames == <<"ip-10-0-0-1", "ip-10-0-0-2", "ip-10-0-0-3", "ip-10-0-0-4">>
InstanceStates == <<"RUNNING", "TERMINATED", "STARTING", "WAITING">>

RawInstance(i, k) ==
    [Id |-> <<"ci", i, k>>, Ec2InstanceId |-> <<"i", i, k>>,
     PublicDnsName |-> PublicDnsNames[k], State |-> InstanceStates[k]]

\* the requested count and the market of the i-th group of the cluster
RequestedInstanceCounts == <<1, 3, 2, 0>>
GroupMarkets == <<"ON_DEMAND", "SPOT", "SPOT", "ON_DEMAND">>

\* one entry of the cluster's 'InstanceGroups' property together with the
\* answer of `aws emr list-instances --instance-group-id` for it
RawGroups(i) ==
    { [Id |-> i, InstanceType |-> t, RequestedInstanceCount |-> RequestedInstanceCounts[i],
       Market |-> GroupMarkets[i], InstanceGroupType |-> l,
       Instances |-> [k \in 1..n |-> RawInstance(i, k)]] :
      t \in SourceTypes, l \in Labels, n \in 0..MaxInst }

RECURSIVE RawClustersOf(_)
RawClustersOf(n) ==
    IF n = 0 THEN { <<>> }
    ELSE { Append(r, g) : r \in RawClustersOf(n - 1), g \in RawGroups(n) }

RawClusters == UNION { RawClustersOf(n) : n \in 0..MaxGroups }

\* ------------------------------------------------------- role classifier
\* group-type labels in the spellings a provider document may carry, and one
\* label that names neither a master nor a known worker tier
AllLabels == {"MASTER", "master", "CORE", "core", "TASK", "Task", "UNKNOWN"}

\* str.upper() on the labels
upper(value) ==
    CASE value \in {"MASTER", "master"} -> "MASTER"
      [] value \in {"CORE", "core"} -> "CORE"
      [] value \in {"TASK", "Task"} -> "TASK"
      [] OTHER -> value

\* the closed set of labels that denote the primary control node
MasterVariants == {"MASTER", "master"}

\* SparkNodeType.fromstring is defined outside this file: a master variant is
\* the master role, every other label the worker role
SparkNodeType_fromstring(value) ==
    IF value \in MasterVariants THEN MASTER ELSE WORKER

get_spark_node_type_fromstring(value) ==
    IF upper(value) \in {"TASK", "CORE"} THEN WORKER ELSE SparkNodeType_fromstring(value)

\* ------------------------------------------------------------ data model
\* InstanceGroup without __post_init__: spark_grp_type keeps its default
InstanceGroup_without_post_init(id, instance_type, count, market, group_type) ==
    [id |-> id, instance_type |-> instance_type, count |-> count, market |-> market,
     group_type |-> group_type, spark_grp_type |-> None]

InstanceGroup(id, instance_type, count, market, group_type) ==
    [id |-> id, instance_type |-> instance_type, count |-> count, market |-> market,
     group_type |-> group_type,
     spark_grp_type |-> get_spark_node_type_fromstring(group_type)]

Ec2Instance(id, ec2_instance_id, dns_name, group, state) ==
    [id |-> id, ec2_instance_id |-> ec2_instance_id, dns_name |-> dns_name,
     group |-> group, state |-> state]

\* the reference held by a variable that is None
NullRef == 0

\* EMRNode.create_node(node_type).set_fields_from_dict({'ec2_instance': inst});
\* `h` is the heap the instance's group reference is read in
EMRNode(h, ec2_inst) ==
    IF ec2_inst.group = NullRef
    THEN [node_type |-> None, name |-> None, instance_type |-> None]
    ELSE [node_type |-> h[ec2_inst.group].spark_grp_type,
          name |-> ec2_inst.dns_name,
          instance_type |-> h[ec2_inst.group].instance_type]

NoCluster == [instance_groups |-> <<>>, ec2_instances |-> <<>>,
              nodes |-> [worker |-> <<>>, master |-> <<>>], built |-> FALSE]

\* --------------------------------------------------------- sequence help
RECURSIVE Flatten(_)
Flatten(ss) == IF ss = <<>> THEN <<>> ELSE Head(ss) \o Flatten(Tail(ss))

\* ------------------------------------------------------------------ load
\* the nodes dictionary, or the IndexError of master_nodes[0]
create_node_from_instances(h, ec2_instances) ==
    LET nodes == [i \in 1..Len(ec2_instances) |-> EMRNode(h, ec2_instances[i])]
        worker_nodes == SelectSeq(nodes, LAMBDA n : n.node_type = WORKER)
        master_nodes == SelectSeq(nodes, LAMBDA n : n.node_type # WORKER)
    IN  IF (\E i \in 1..Len(ec2_instances) : ec2_instances[i].group = NullRef)
           \/ master_nodes = <<>>
        THEN [error |-> TRUE, worker |-> <<>>, master |-> <<>>]
        ELSE [error |-> FALSE, worker |-> worker_nodes, master |-> <<master_nodes[1]>>]

process_cluster_group_list(inst_groups) ==
    [i \in 1..Len(inst_groups) |->
        InstanceGroup(inst_groups[i].Id, inst_groups[i].InstanceType,
                      inst_groups[i].RequestedInstanceCount, inst_groups[i].Market,
                      inst_groups[i].InstanceGroupType)]

\* the instances of the group object at reference `ref`
create_ec2_list_by_group(ref, raw_group) ==
    [k \in 1..Len(raw_group.Instances) |->
        Ec2Instance(raw_group.Instances[k].Id, raw_group.Instances[k].Ec2InstanceId,
                    raw_group.Instances[k].PublicDnsName, ref,
                    raw_group.Instances[k].State)]

\* the loop that extends self.ec2_instances group by group
load_ec2_instances(r) ==
    Flatten([i \in 1..Len(r) |-> create_ec2_list_by_group(i, r[i])])

init_nodes(r) ==
    LET h == process_cluster_group_list(r)
        insts == load_ec2_instances(r)
        nodes == create_node_from_instances(h, insts)
    IN  [heap |-> h, error |-> nodes.error,
         cluster |-> [instance_groups |-> [i \in 1..Len(r) |-> i],
                      ec2_instances |-> insts,
                      nodes |-> [worker |-> nodes.worker, master |-> nodes.master],
                      built |-> TRUE]]

\* ------------------------------------------------------------- migration
\* dict.get(key, default): the stored value, also when that value is None
dict_get(d, key, default) == IF key \in DOMAIN d THEN d[key] ELSE default

\* the hardware-type matcher; its heuristic is outside this file
find_best_cpu_conversion(anode) == matcher[anode.instance_type]

\* the loop over the worker nodes: acc = [mc_map, calls], calls being the log
\* of the types find_best_cpu_conversion was invoked for
RECURSIVE match_worker_nodes(_, _)
match_worker_nodes(node_list, acc) ==
    IF node_list = <<>> THEN acc
    ELSE LET anode == Head(node_list)
         IN  IF anode.instance_type \notin DOMAIN acc.mc_map
             THEN match_worker_nodes(Tail(node_list),
                    [mc_map |-> acc.mc_map @@
                                (anode.instance_type :> find_best_cpu_conversion(anode)),
                     calls |-> Append(acc.calls, anode.instance_type)])
             ELSE match_worker_nodes(Tail(node_list), acc)

\* the master entry of self.nodes is skipped
find_matches_for_node(cluster) ==
    match_worker_nodes(cluster.nodes.worker, [mc_map |-> <<>>, calls |-> <<>>])

\* convert_group without the test for master groups
convert_group_any_role(curr_ref, mc_type_map, acc) ==
    LET curr_group == acc.heap[curr_ref]
        new_instance_type ==
            IF curr_group.instance_type \in DOMAIN mc_type_map
            THEN mc_type_map[curr_group.instance_type] ELSE curr_group.instance_type
    IN  IF new_instance_type = curr_group.instance_type
        THEN [acc EXCEPT !.instance_groups = Append(@, curr_ref),
                         !.group_cache = (curr_group.id :> curr_ref) @@ @]
        ELSE [heap |-> Append(acc.heap, [curr_group EXCEPT !.instance_type = new_instance_type]),
              instance_groups |-> Append(acc.instance_groups, Len(acc.heap) + 1),
              group_cache |-> (curr_group.id :> (Len(acc.heap) + 1)) @@ acc.group_cache]

\* one turn of the loop over orig_cluster.instance_groups;
\* acc = [heap, instance_groups, group_cache]
convert_group(curr_ref, mc_type_map, acc) ==
    LET curr_group == acc.heap[curr_ref]
        new_instance_type ==
            dict_get(mc_type_map, curr_group.instance_type, curr_group.instance_type)
    IN  IF curr_group.spark_grp_type = MASTER
        THEN [acc EXCEPT !.instance_groups = Append(@, curr_ref)]
        ELSE IF new_instance_type = curr_group.instance_type
        THEN [acc EXCEPT !.instance_groups = Append(@, curr_ref),
                         !.group_cache = (curr_group.id :> curr_ref) @@ @]
        ELSE LET new_inst_grp == InstanceGroup(curr_group.id, new_instance_type,
                                               curr_group.count, curr_group.market,
                                               curr_group.group_type)
                 new_ref == Len(acc.heap) + 1
             IN  [heap |-> Append(acc.heap, new_inst_grp),
                  instance_groups |-> Append(acc.instance_groups, new_ref),
                  group_cache |-> (new_inst_grp.id :> new_ref) @@ acc.group_cache]

\* convert_groups with the append to instance_groups inside the worker branch
RECURSIVE convert_groups_append_in_else(_, _, _)
convert_groups_append_in_else(refs, mc_type_map, acc) ==
    IF refs = <<>> THEN acc
    ELSE IF acc.heap[Head(refs)].spark_grp_type = MASTER
    THEN convert_groups_append_in_else(Tail(refs), mc_type_map, acc)
    ELSE convert_groups_append_in_else(Tail(refs), mc_type_map,
                                       convert_group(Head(refs), mc_type_map, acc))

RECURSIVE convert_groups(_, _, _)
convert_groups(refs, mc_type_map, acc) ==
    IF refs = <<>> THEN acc
    ELSE convert_groups(Tail(refs), mc_type_map, convert_group(Head(refs), mc_type_map, acc))

\* new_group_obj without the lookup in the group cache
new_group_obj_of_source(h, ec2_inst, group_cache) == ec2_inst.group

\* the group a rebuilt instance is attached to
new_group_obj(h, ec2_inst, group_cache) ==
    IF h[ec2_inst.group].spark_grp_type = MASTER
    THEN ec2_inst.group
    ELSE dict_get(group_cache, h[ec2_inst.group].id, NullRef)

\* convert_instance that copies the address
convert_instance_keeps_dns(h, ec2_inst, group_cache) ==
    Ec2Instance(ec2_inst.id, ec2_inst.ec2_instance_id, ec2_inst.dns_name,
                new_group_obj(h, ec2_inst, group_cache), ec2_inst.state)

convert_instance(h, ec2_inst, group_cache) ==
    Ec2Instance(ec2_inst.id, ec2_inst.ec2_instance_id, None,
                new_group_obj(h, ec2_inst, group_cache), ec2_inst.state)

\* everything migrate_from_cluster computes from the source cluster
migrate_from_cluster(h, orig) ==
    LET fm == find_matches_for_node(orig)
        conv == convert_groups(orig.instance_groups, fm.mc_map,
                    [heap |-> h, instance_groups |-> <<>>, group_cache |-> <<>>])
        insts == [i \in 1..Len(orig.ec2_instances) |->
                    convert_instance(h, orig.ec2_instances[i], conv.group_cache)]
        nodes == create_node_from_instances(conv.heap, insts)
    IN  [heap |-> conv.heap, error |-> nodes.error,
         mc_type_map |-> fm.mc_map, calls |-> fm.calls,
         cluster |-> [instance_groups |-> conv.instance_groups,
                      ec2_instances |-> insts,
                      nodes |-> [worker |-> nodes.worker, master |-> nodes.master],
                      built |-> TRUE]]

update_ctxt_notes(ctxt_notes, key, value) == (key :> value) @@ ctxt_notes

\* ------------------------------------------------------ savings estimator
\* price catalogs: unit costs per hour, in cents, of the 'ec2' and 'emr' sections
Catalogs ==
    { [ec2 |-> ("r5.2xlarge" :> 20) @@ ("g5.2xlarge" :> 15),
       emr |-> ("r5.2xlarge" :> 5) @@ ("g5.2xlarge" :> 8)],
      [ec2 |-> ("r5.2xlarge" :> 7),
       emr |-> ("r5.2xlarge" :> 3)] }

\* add_group_cost without the emr surcharge
add_group_cost_ec2_only(curr_group, catalog, acc) ==
    IF acc.error
       \/ curr_group.instance_type \notin DOMAIN catalog.ec2
       \/ curr_group.instance_type \notin DOMAIN catalog.emr
    THEN [error |-> TRUE, total_cost |-> 0]
    ELSE [error |-> FALSE,
          total_cost |-> acc.total_cost + catalog.ec2[curr_group.instance_type] * curr_group.count]

\* one turn of the loop over cluster.instance_groups; acc = [error, total_cost]
add_group_cost(curr_group, catalog, acc) ==
    IF acc.error
       \/ curr_group.instance_type \notin DOMAIN catalog.ec2
       \/ curr_group.instance_type \notin DOMAIN catalog.emr
    THEN [error |-> TRUE, total_cost |-> 0]
    ELSE LET ec2_unit_cost == catalog.ec2[curr_group.instance_type]
             ec2_cost == ec2_unit_cost * curr_group.count
             emr_unit_cost == catalog.emr[curr_group.instance_type]
             emr_cost == emr_unit_cost * curr_group.count
         IN  [error |-> FALSE, total_cost |-> acc.total_cost + (emr_cost + ec2_cost)]

RECURSIVE cost_of_groups(_, _, _, _)
cost_of_groups(h, refs, catalog, acc) ==
    IF refs = <<>> THEN acc
    ELSE cost_of_groups(h, Tail(refs), catalog, add_group_cost(h[Head(refs)], catalog, acc))

get_cost_per_cluster(h, cluster, catalog) ==
    cost_of_groups(h, cluster.instance_groups, catalog, [error |-> FALSE, total_cost |-> 0])

\* target first, then source; a failed lookup leaves the later cost unset
setup_costs(h, source_cluster, target_cluster, catalog) ==
    LET t == get_cost_per_cluster(h, target_cluster, catalog)
        s == get_cost_per_cluster(h, source_cluster, catalog)
    IN  [error |-> t.error \/ s.error,
         target_cost |-> IF t.error THEN <<>> ELSE <<t.total_cost>>,
         source_cost |-> IF t.error \/ s.error THEN <<>> ELSE <<s.total_cost>>]

NoEstimator == [source |-> None, target |-> None, catalog |-> <<>>, error |-> FALSE,
                target_cost |-> <<>>, source_cost |-> <<>>]

\* ----------------------------------------------------------------- state
cluster_named(name) == IF name = "orig" THEN orig_cluster ELSE gpu_cluster

Init ==
    /\ raw \in RawClusters
    /\ matcher \in [SourceTypes -> MatchResults]
    /\ pc = "start"
    /\ heap = <<>>
    /\ orig_cluster = NoCluster
    /\ gpu_cluster = NoCluster
    /\ calls = <<>>
    /\ notes = <<>>
    /\ estimator = NoEstimator

\* EMRCluster(platform).set_connection(...): build the topology from raw data
Load ==
    /\ pc = "start"
    /\ LET res == init_nodes(raw)
       IN  /\ heap' = res.heap
           /\ orig_cluster' = IF res.error THEN NoCluster ELSE res.cluster
           /\ pc' = IF res.error THEN "load_error" ELSE "loaded"
    /\ UNCHANGED <<raw, matcher, gpu_cluster, calls, notes, estimator>>

\* EMRPlatform.migrate_cluster_to_gpu(orig_cluster)
MigrateClusterToGpu ==
    /\ pc = "loaded"
    /\ LET res == migrate_from_cluster(heap, orig_cluster)
       IN  /\ heap' = res.heap
           /\ calls' = res.calls
           /\ gpu_cluster' = IF res.error THEN NoCluster ELSE res.cluster
           /\ notes' = IF ~res.error /\ DOMAIN res.mc_type_map # {}
                       THEN update_ctxt_notes(notes, "nodeConversions", res.mc_type_map)
                       ELSE notes
           /\ pc' = IF res.error THEN "migrate_error" ELSE "migrated"
    /\ UNCHANGED <<raw, matcher, orig_cluster, estimator>>

\* EMRPlatform.create_saving_estimator(source, target) and its _setup_costs
SetupCosts ==
    /\ pc = "migrated"
    /\ \E source \in {"orig", "gpu"}, target \in {"orig", "gpu"}, catalog \in Catalogs :
          LET res == setup_costs(heap, cluster_named(source), cluster_named(target), catalog)
          IN  /\ estimator' = [source |-> source, target |-> target, catalog |-> catalog,
                               error |-> res.error, target_cost |-> res.target_cost,
                               source_cost |-> res.source_cost]
              /\ pc' = IF res.error THEN "cost_error" ELSE "costed"
    /\ UNCHANGED <<raw, matcher, heap, orig_cluster, gpu_cluster, calls, notes>>

Next == Load \/ MigrateClusterToGpu \/ SetupCosts

Spec == Init /\ [][Next]_vars

\* ------------------------------------------- the classifier on all labels
\* clusters whose groups carry any label of AllLabels, all of one CPU type
LabelledRawGroups(i) ==
    { [Id |-> i, InstanceType |-> "r5.2xlarge",
       RequestedInstanceCount |-> RequestedInstanceCounts[i],
       Market |-> GroupMarkets[i], InstanceGroupType |-> l,
       Instances |-> [k \in 1..n |-> RawInstance(i, k)]] :
      l \in AllLabels, n \in 0..MaxInst }

RECURSIVE LabelledRawClustersOf(_)
LabelledRawClustersOf(n) ==
    IF n = 0 THEN { <<>> }
    ELSE { Append(r, g) : r \in LabelledRawClustersOf(n - 1), g \in LabelledRawGroups(n) }

LabelledRawClusters == UNION { LabelledRawClustersOf(n) : n \in 0..MaxGroups }

InitLabelled ==
    /\ raw \in LabelledRawClusters
    /\ matcher = [t \in SourceTypes |-> "g5.2xlarge"]
    /\ pc = "start"
    /\ heap = <<>>
    /\ orig_cluster = NoCluster
    /\ gpu_cluster = NoCluster
    /\ calls = <<>>
    /\ notes = <<>>
    /\ estimator = NoEstimator

NextLabelled == Load \/ MigrateClusterToGpu

SpecLabelled == InitLabelled /\ [][NextLabelled]_vars

\* ============================================================ properties
\* a migrated topology has been returned
Migrated == gpu_cluster.built

Positions == 1..Len(orig_cluster.instance_groups)
InstancePositions == 1..Len(orig_cluster.ec2_instances)

\* the source group and the migrated group at position i
SrcGroup(i) == heap[orig_cluster.instance_groups[i]]
NewGroup(i) == heap[gpu_cluster.instance_groups[i]]

IsWorkerGroup(g) == g.spark_grp_type = WORKER
IsMasterGroup(g) == g.spark_grp_type = MASTER

\* the groups as they were when the topology was loaded
LoadedGroups == process_cluster_group_list(raw)
LoadedInstances == load_ec2_instances(raw)

MasterNodeCount(cluster) ==
    Cardinality({ k \in 1..Len(cluster.ec2_instances) :
                    ~IsWorkerGroup(heap[cluster.ec2_instances[k].group]) })

\* the instance types that occur among worker-role groups / worker nodes
WorkerGroupTypes == { SrcGroup(i).instance_type : i \in { j \in Positions : IsWorkerGroup(SrcGroup(j)) } }
WorkerNodeTypes == { orig_cluster.nodes.worker[j].instance_type :
                        j \in 1..Len(orig_cluster.nodes.worker) }

TimesCalled(t) == Cardinality({ j \in 1..Len(calls) : calls[j] = t })

\* the group at position i was replaced by a new object
Substituted(i) == gpu_cluster.instance_groups[i] # orig_cluster.instance_groups[i]

\* C1 (as claimed): with exactly one master node, every worker-role group whose
\* instance type the matcher maps to a different type T is, in the migrated
\* topology and at the same position, a group with the same id, count, market
\* and label and with instance type T, however many instances the source lists.
C1_WorkerGroupsConverted ==
    (Migrated /\ MasterNodeCount(orig_cluster) = 1) =>
        \A i \in Positions :
            (IsWorkerGroup(SrcGroup(i))
               /\ matcher[SrcGroup(i).instance_type] \notin {None, SrcGroup(i).instance_type})
            => NewGroup(i) = [SrcGroup(i) EXCEPT
                                !.instance_type = matcher[SrcGroup(i).instance_type]]

\* C2: every master-role group of the source is, in the migrated collection, the
\* same object with the fields it was loaded with; every instance of a master
\* group keeps that group; only worker-role groups change instance type.
C2_MasterGroupsUntouched ==
    Migrated =>
        LET groups == LoadedGroups
            instances == LoadedInstances
        IN  /\ Len(gpu_cluster.instance_groups) = Len(groups)
            /\ \A i \in 1..Len(groups) :
                  IsMasterGroup(groups[i]) =>
                     /\ gpu_cluster.instance_groups[i] = orig_cluster.instance_groups[i]
                     /\ NewGroup(i) = groups[i]
            /\ \A k \in 1..Len(instances) :
                  IsMasterGroup(groups[instances[k].group]) =>
                     gpu_cluster.ec2_instances[k].group = instances[k].group
            /\ \A i \in 1..Len(groups) :
                  NewGroup(i).instance_type # groups[i].instance_type
                     => IsWorkerGroup(groups[i])

\* C2 witness: a master group shares its instance type with a worker group
\* whose type was substituted.
C2_Witness ==
    /\ Migrated
    /\ \E i \in Positions, j \in Positions :
          /\ IsMasterGroup(SrcGroup(i)) /\ IsWorkerGroup(SrcGroup(j))
          /\ SrcGroup(i).instance_type = SrcGroup(j).instance_type
          /\ NewGroup(j).instance_type \notin {None, SrcGroup(j).instance_type}

\* C3 (as claimed): find_best_cpu_conversion is invoked exactly once for each
\* distinct instance type among the worker-role groups of the source and never
\* for a type that occurs only in master-role groups.
C3_MatcherOncePerWorkerGroupType ==
    Migrated =>
        \A t \in SourceTypes :
            TimesCalled(t) = (IF t \in WorkerGroupTypes THEN 1 ELSE 0)

\* C4 (as claimed): when the matcher returns None for a worker instance type,
\* every group of that type keeps its instance type and its group object.
C4_NoMatchKeepsGroup ==
    Migrated =>
        \A i \in Positions :
            (IsWorkerGroup(SrcGroup(i)) /\ matcher[SrcGroup(i).instance_type] = None)
            => /\ ~Substituted(i)
               /\ NewGroup(i).instance_type = LoadedGroups[i].instance_type

\* C5 (as claimed): the 'nodeConversions' note holds old type -> new type for
\* exactly the worker instance types whose replacement differs from the source
\* type; when no type changed nothing is noted.
ChangedTypes == { t \in WorkerNodeTypes : matcher[t] \notin {None, t} }

C5_ReportHoldsOnlyChanges ==
    Migrated =>
        IF ChangedTypes = {}
        THEN "nodeConversions" \notin DOMAIN notes
        ELSE /\ "nodeConversions" \in DOMAIN notes
             /\ DOMAIN notes["nodeConversions"] = ChangedTypes
             /\ \A t \in ChangedTypes : notes["nodeConversions"][t] = matcher[t]

\* C6 (as claimed): a topology is produced, on load and on migration, only when
\* exactly one master-role node exists.
C6_ExactlyOneMasterNode ==
    /\ orig_cluster.built => MasterNodeCount(orig_cluster) = 1
    /\ gpu_cluster.built => MasterNodeCount(gpu_cluster) = 1

\* C7: each instance of a migrated topology refers to a group of that topology's
\* group collection, namely the one at the position of its source group; the
\* instances of a substituted group refer to the new object, which has the
\* matcher's type, and every worker node reports the type of its instance's group.
WorkerInstances(cluster) ==
    SelectSeq(cluster.ec2_instances, LAMBDA e : IsWorkerGroup(heap[e.group]))

C7_GroupRefsResolve ==
    Migrated =>
        /\ Len(gpu_cluster.ec2_instances) = Len(orig_cluster.ec2_instances)
        /\ \A k \in InstancePositions :
              LET r == gpu_cluster.ec2_instances[k].group
                  s == orig_cluster.ec2_instances[k].group
              IN  /\ r # NullRef
                  /\ \E i \in 1..Len(gpu_cluster.instance_groups) :
                        gpu_cluster.instance_groups[i] = r
                  /\ \A i \in Positions :
                        orig_cluster.instance_groups[i] = s =>
                           /\ r = gpu_cluster.instance_groups[i]
                           /\ Substituted(i) =>
                                 /\ r \notin { orig_cluster.instance_groups[j] : j \in Positions }
                                 /\ heap[r].instance_type = matcher[heap[s].instance_type]
        /\ Len(gpu_cluster.nodes.worker) = Len(WorkerInstances(gpu_cluster))
        /\ \A j \in 1..Len(gpu_cluster.nodes.worker) :
              gpu_cluster.nodes.worker[j].instance_type
                 = heap[WorkerInstances(gpu_cluster)[j].group].instance_type

\* C7 witness: an instance of a worker group that was substituted by a group of
\* another instance type.
C7_Witness ==
    /\ Migrated
    /\ \E k \in InstancePositions :
          LET s == orig_cluster.ec2_instances[k].group
          IN  /\ IsWorkerGroup(heap[s])
              /\ gpu_cluster.ec2_instances[k].group # s
              /\ heap[gpu_cluster.ec2_instances[k].group].instance_type = "g5.2xlarge"
              /\ heap[s].instance_type = "r5.2xlarge"

\* C8: the migrated topology has as many groups and as many instances as the
\* source, in the same order, and every instance keeps its id, its
\* ec2_instance_id and its state.
C8_StructurePreserved ==
    Migrated =>
        LET groups == LoadedGroups
            instances == LoadedInstances
        IN  /\ Len(gpu_cluster.instance_groups) = Len(groups)
            /\ Len(gpu_cluster.ec2_instances) = Len(instances)
            /\ \A i \in 1..Len(groups) : NewGroup(i).id = groups[i].id
            /\ \A k \in 1..Len(instances) :
                  /\ gpu_cluster.ec2_instances[k].id = instances[k].id
                  /\ gpu_cluster.ec2_instances[k].ec2_instance_id = instances[k].ec2_instance_id
                  /\ gpu_cluster.ec2_instances[k].state = instances[k].state

\* C8 witness: a migrated topology of two groups and three instances, one group
\* substituted.
C8_Witness ==
    /\ Migrated
    /\ Len(gpu_cluster.instance_groups) = 2
    /\ Len(gpu_cluster.ec2_instances) = 3
    /\ \E i \in Positions : Substituted(i)

\* C9: every instance of a migrated topology has no dns_name, whatever its group;
\* the instances of the source keep the dns_name they were loaded with.
C9_AddressesCleared ==
    Migrated =>
        /\ \A k \in 1..Len(gpu_cluster.ec2_instances) :
              gpu_cluster.ec2_instances[k].dns_name = None
        /\ orig_cluster.ec2_instances = LoadedInstances
        /\ \A k \in InstancePositions :
              orig_cluster.ec2_instances[k].dns_name # None

\* C9 witness: a migrated topology with a master instance and an instance of a
\* worker group that was not substituted.
C9_Witness ==
    /\ Migrated
    /\ \E k \in InstancePositions, l \in InstancePositions :
          /\ IsMasterGroup(heap[gpu_cluster.ec2_instances[k].group])
          /\ IsWorkerGroup(heap[gpu_cluster.ec2_instances[l].group])
          /\ gpu_cluster.ec2_instances[l].group = orig_cluster.ec2_instances[l].group
          /\ orig_cluster.ec2_instances[l].dns_name = "ip-10-0-0-2"

\* C10: with a catalog that prices every instance type of both topologies, each
\* cost of the estimator is the sum over all groups, master and worker, of
\* (ec2 unit cost + emr unit cost) * count, and a topology compared with itself
\* has equal source and target cost.
RECURSIVE SumOfGroupCosts(_, _, _)
SumOfGroupCosts(cluster, catalog, n) ==
    IF n = 0 THEN 0
    ELSE LET g == heap[cluster.instance_groups[n]]
         IN  SumOfGroupCosts(cluster, catalog, n - 1)
               + (catalog.ec2[g.instance_type] + catalog.emr[g.instance_type]) * g.count

Priced(cluster, catalog) ==
    \A i \in 1..Len(cluster.instance_groups) :
        heap[cluster.instance_groups[i]].instance_type
            \in (DOMAIN catalog.ec2 \cap DOMAIN catalog.emr)

CostsSet == pc \in {"costed", "cost_error"}

C10_CostIsSumOverGroups ==
    (CostsSet /\ Priced(cluster_named(estimator.source), estimator.catalog)
              /\ Priced(cluster_named(estimator.target), estimator.catalog)) =>
        LET src == cluster_named(estimator.source)
            tgt == cluster_named(estimator.target)
        IN  /\ ~estimator.error
            /\ estimator.source_cost
                 = <<SumOfGroupCosts(src, estimator.catalog, Len(src.instance_groups))>>
            /\ estimator.target_cost
                 = <<SumOfGroupCosts(tgt, estimator.catalog, Len(tgt.instance_groups))>>
            /\ estimator.source = estimator.target
                 => estimator.source_cost = estimator.target_cost

\* C10 witness: the costs of a substituted topology compared with its source,
\* both with a master and a worker group.
C10_Witness ==
    /\ pc = "costed"
    /\ estimator.source = "orig" /\ estimator.target = "gpu"
    /\ \E i \in Positions, j \in Positions :
          /\ IsMasterGroup(SrcGroup(i)) /\ IsWorkerGroup(SrcGroup(j)) /\ Substituted(j)
    /\ estimator.source_cost # estimator.target_cost

\* C11: every group object that is constructed, on load or on migration, has a
\* role: master when its label is one of the master variants, worker for every
\* other label, known worker tier or not; no label makes the load fail otherwise
\* than through a missing master node.
RoleOfLabel(label) == IF label \in MasterVariants THEN MASTER ELSE WORKER

====
